---- MODULE Spec2Model ----
(***************************************************************************)
(* The forecasting scripts of backend/forcasting: arimaService.main and    *)
(* forecastService.main (with fail and statistical_forecast), each one a   *)
(* run-to-completion process that reads one payload and writes to stdout.  *)
(*                                                                         *)
(* Numbers.  Python floats are modelled as fixed-point integers in units   *)
(* of 1/Scale, computed in the order the code computes them; NaN is a flag *)
(* of its own.  Library estimators (Prophet, statsmodels ARIMA) are        *)
(* nondeterministic: their point forecasts are drawn from a small family.  *)
(***************************************************************************)
EXTENDS Integers, Sequences, FiniteSets, TLC

\* ----------------------------------------------------------------- bounds
MaxLen == 11
MaxY == 3
MaxHorizon == 2
MaxBad == 2
Scale == 100
\* days that may pass between two runs on the same input
MaxGap == 1
\* rows a query returns, and the largest limit asked for
MaxRows == 4
MaxLimit == 3

\* ------------------------------------------------------ program constants
MinRowsArima == 10
MinRowsProphet == 5
MinRowsFallback == 5
SynthLen == 100
SynthBase == 100
DefaultHorizon == 7

\* ---------------------------------------------------------------- helpers
Min(a, b) == IF a < b THEN a ELSE b

Max(a, b) == IF a > b THEN a ELSE b

\* sum of s[lo..hi], by halves
RECURSIVE SumRange(_, _, _)
SumRange(s, lo, hi) ==
    IF lo > hi THEN 0
    ELSE IF lo = hi THEN s[lo]
    ELSE LET mid == (lo + hi) \div 2
         IN  SumRange(s, lo, mid) + SumRange(s, mid + 1, hi)

SumSeq(s) == SumRange(s, 1, Len(s))

RECURSIVE ISqrtIn(_, _, _)
ISqrtIn(n, lo, hi) ==
    IF lo >= hi THEN lo
    ELSE LET mid == (lo + hi + 1) \div 2
         IN  IF mid * mid <= n THEN ISqrtIn(n, mid, hi) ELSE ISqrtIn(n, lo, mid - 1)

\* floor of the square root, the fixed-point image of numpy's sqrt
ISqrt(n) == ISqrtIn(n, 0, Min(n, 46340))

Range(s) == {s[i] : i \in DOMAIN s}

\* ------------------------------------------------------------ the request
\* One element of payload["series"].  shape "number" is a JSON value that is
\* not an object.  dsK: the "ds" key is absent, a parseable date (day number
\* ds), an unparseable string ("bad") or null.  yK: the "y" key is absent, a
\* number y, the literal NaN, a non-numeric string ("text") or null.
Entry(shape, dsK, ds, yK, y) ==
    [shape |-> shape, dsK |-> dsK, ds |-> ds, yK |-> yK, y |-> y]

Patterns == {"inc", "zig", "const"}

BadKinds == {"zero", "neg", "nan", "text", "nully", "noy", "number", "badds", "nullds"}

PatternY(pat, i, len) ==
    CASE pat = "inc" -> 1 + ((i - 1) * MaxY) \div len
      [] pat = "zig" -> IF i % 2 = 1 THEN 1 ELSE MaxY
      [] OTHER -> MaxY

ModeDsK(mode) == IF mode = "none" THEN "absent" ELSE "date"

ModeDs(mode, i, len) ==
    CASE mode = "dates" -> i
      [] mode = "rev" -> len + 1 - i
      [] mode = "dup" -> (i + 1) \div 2
      [] OTHER -> 0

GoodEntry(pat, mode, i, len) ==
    Entry("dict", ModeDsK(mode), ModeDs(mode, i, len), "num", PatternY(pat, i, len))

BadEntry(bad, mode, i, len) ==
    LET dk == ModeDsK(mode)
        d == ModeDs(mode, i, len)
    IN  CASE bad = "zero" -> Entry("dict", dk, d, "num", 0)
          [] bad = "neg" -> Entry("dict", dk, d, "num", -1)
          [] bad = "nan" -> Entry("dict", dk, d, "nan", 0)
          [] bad = "text" -> Entry("dict", dk, d, "text", 0)
          [] bad = "nully" -> Entry("dict", dk, d, "null", 0)
          [] bad = "noy" -> Entry("dict", dk, d, "absent", 0)
          [] bad = "number" -> Entry("number", "absent", 0, "absent", 0)
          [] bad = "badds" -> Entry("dict", "bad", 0, "num", 1)
          [] OTHER -> Entry("dict", "null", 0, "num", 1)

\* a series of len entries: the first k are the defective entry, the rest
\* follow the pattern
MakeSeries(len, pat, mode, bad, k) ==
    [i \in 1..len |-> IF i <= k THEN BadEntry(bad, mode, i, len)
                      ELSE GoodEntry(pat, mode, i, len)]

Shapes(script) ==
    IF script = "arima" THEN {<<p, "none">> : p \in Patterns}
    ELSE {<<"inc", "dates">>, <<"zig", "none">>, <<"const", "dates">>,
          <<"zig", "rev">>, <<"inc", "dup">>}

MinRows(script) == IF script = "arima" THEN MinRowsArima ELSE MinRowsProphet

\* the raw series tried that reach the script's minimum: up to MaxLen
\* entries, in every shape and with every kind of defective entry
LongSeries(script) ==
    {MakeSeries(len, sh[1], sh[2], bad, k) :
        len \in MinRows(script)..MaxLen, sh \in Shapes(script),
        bad \in BadKinds, k \in 0..MaxBad}

\* the raw series tried that are too short for the script: empty, or one
\* entry short
ShortSeries(script) ==
    {MakeSeries(len, "inc", IF script = "arima" THEN "none" ELSE "dates", "zero", k) :
        len \in {0, MinRows(script) - 1}, k \in 0..1}

HorizonInputs ==
    {[hK |-> "omitted", h |-> 0], [hK |-> "bad", h |-> 0]}
        \cup {[hK |-> "int", h |-> n] : n \in (0 - 1)..MaxHorizon}

Request(s, hz) == [kind |-> "object", series |-> s, hK |-> hz.hK, h |-> hz.h]

\* what stdin holds: a request object, or nothing, text that is not JSON,
\* or JSON that is not an object
Requests(script, sers) == {Request(s, hz) : s \in sers, hz \in HorizonInputs}

NonRequests ==
    {[kind |-> kd, series |-> <<>>, hK |-> "omitted", h |-> 0] :
        kd \in {"empty", "malformed", "nonobject"}}

\* ---------------------------------------------------------------- numbers
\* a float: NaN, or the integer v
Num(v) == [nan |-> FALSE, v |-> v]

NaN == [nan |-> TRUE, v |-> 0]

AnyNaN(vals) == \E i \in DOMAIN vals : vals[i].nan

Vals(vals) == [i \in DOMAIN vals |-> vals[i].v]

\* numpy.mean of integers, in units of 1/Scale
NpMean(ys) == (SumSeq(ys) * Scale) \div Len(ys)

\* numpy.std (population, ddof = 0) of values given in units of 1/Scale
NpStdFp(fs) ==
    LET m == SumSeq(fs) \div Len(fs)
        sq == [i \in DOMAIN fs |-> (fs[i] - m) * (fs[i] - m)]
    IN  ISqrt(SumSeq(sq) \div Len(fs))

NpStd(ys) == NpStdFp([i \in DOMAIN ys |-> ys[i] * Scale])

\* pandas Series.std (sample, ddof = 1)
PandasStd(ys) ==
    LET m == NpMean(ys)
        sq == [i \in DOMAIN ys |-> (ys[i] * Scale - m) * (ys[i] * Scale - m)]
    IN  ISqrt(SumSeq(sq) \div (Len(ys) - 1))

\* numpy.polyfit(x, values, 1) over x = 0..n-1: the least-squares line.
\* num is the exact sign-carrying numerator of the slope, slope and
\* intercept are in units of 1/Scale.
PolyFit(ys) ==
    LET n == Len(ys)
        sx == SumSeq([i \in 1..n |-> i - 1])
        sxx == SumSeq([i \in 1..n |-> (i - 1) * (i - 1)])
        sy == SumSeq(ys)
        sxy == SumSeq([i \in 1..n |-> (i - 1) * ys[i]])
        num == n * sxy - sx * sy
        den == n * sxx - sx * sx
        slope == (num * Scale) \div den
    IN  [num |-> num, slope |-> slope, intercept |-> (sy * Scale - slope * sx) \div n]

\* ----------------------------------------------------------------- output
Point(ds, nan, yhat, lower, upper) ==
    [ds |-> ds, nan |-> nan, yhat |-> yhat, lower |-> lower, upper |-> upper]

NoPoint == Point(0, FALSE, 0, 0, 0)

NoOut ==
    [kind |-> "none", model |-> "", error |-> "", horizonDays |-> 0, dataPoints |-> 0,
     next |-> NoPoint, path |-> <<>>, trend |-> "", mean |-> NaN, std |-> NaN]

ErrorResult(message, model) ==
    [NoOut EXCEPT !.kind = "error", !.model = model, !.error = message]

ForecastResult(model, h, n, next, path, trend, mean, std) ==
    [kind |-> "forecast", model |-> model, error |-> "", horizonDays |-> h,
     dataPoints |-> n, next |-> next, path |-> path, trend |-> trend,
     mean |-> mean, std |-> std]

\* ------------------------------------------------------- UNFCCCService
\* the limit argument: None, or an integer
NoLimit == [k |-> "none", v |-> 0]

IntLimit(v) == [k |-> "int", v |-> v]

LimitInputs == {NoLimit} \cup {IntLimit(v) : v \in (0 - 1)..MaxLimit}

\* "if limit": None and 0 are false
Truthy(limit) == limit.k = "int" /\ limit.v # 0

\* a frame the reader's query returns: n rows with the columns year,
\* category_name and emissions, years unsorted and repeated, and the
\* emissions of row nanAt missing (NaN)
MakeFrame(n, nanAt) ==
    [i \in 1..n |->
        [year |-> 1 + ((2 * i) % 3),
         category_name |-> IF i % 2 = 1 THEN "energy" ELSE "waste",
         emissions |-> IF i = nanAt THEN NaN ELSE Num(i)]]

\* what reader.query does: returns a frame, or raises
QueryResults ==
    {[k |-> "frame", rows |-> MakeFrame(n, nanAt)] : n \in 0..MaxRows, nanAt \in 0..MaxRows}
        \cup {[k |-> "raise", rows |-> <<>>]}

\* a service object: UNFCCC_AVAILABLE, the API key of the
\* environment, and whether __init__ left a reader
ServiceObject(available, apiKey, reader) ==
    [available |-> available, apiKey |-> apiKey, reader |-> reader]

\* the objects __init__ can build: a reader only when the package was
\* imported and a key is set, and none when the reader's constructor raised
Services ==
    {svc \in {ServiceObject(a, key, rd) :
                 a \in BOOLEAN, key \in BOOLEAN, rd \in BOOLEAN} :
        svc.reader => (svc.available /\ svc.apiKey)}

NoService == ServiceObject(FALSE, FALSE, FALSE)

NoCall == [party_code |-> "", gases |-> "none", limit |-> NoLimit,
           result |-> [k |-> "none", rows |-> <<>>]]

\* a returned dictionary; kind tells which keys it has
NoResponse ==
    [kind |-> "none", error |-> "", party_code |-> "", gases |-> "", data |-> <<>>,
     source |-> "", limit_applied |-> NoLimit, total_records |-> 0,
     total_available |-> 0, years |-> <<>>, categories |-> <<>>, message |-> ""]

is_available(svc) == svc.available /\ svc.reader

\* DataFrame.head(n): the first n rows; for n < 0 all rows but the last -n
PandasHead(frame, n) ==
    IF n >= 0 THEN SubSeq(frame, 1, Min(n, Len(frame)))
    ELSE SubSeq(frame, 1, Max(Len(frame) + n, 0))

\* to_dict('records') and the loop that replaces NaN by None
ToRecords(frame) ==
    [i \in DOMAIN frame |->
        [year |-> frame[i].year,
         category_name |-> frame[i].category_name,
         emissions |-> IF frame[i].emissions.nan
                       THEN [null |-> TRUE, v |-> 0]
                       ELSE [null |-> FALSE, v |-> frame[i].emissions.v]]]

\* sorted(column.unique().tolist()) for a column of integers
SortedUnique(S) ==
    CHOOSE f \in [1..Cardinality(S) -> S] :
        \A i, j \in 1..Cardinality(S) : i < j => f[i] < f[j]

\* the dictionary get_emissions_data returns
GetEmissionsResult(svc, party_code, gases, limit, result) ==
    IF ~is_available(svc)
    THEN [NoResponse EXCEPT !.kind = "error",
             !.error = "UNFCCC service not available - API key required"]
    ELSE IF ~svc.reader
    THEN [NoResponse EXCEPT !.kind = "error",
             !.error = "UNFCCC API reader not available"]
    ELSE IF result.k = "raise"
    THEN [NoResponse EXCEPT !.kind = "error", !.error = "str(e)",
             !.party_code = party_code, !.source = "error"]
    ELSE IF result.rows = <<>>
    THEN [NoResponse EXCEPT !.kind = "empty", !.party_code = party_code,
             !.gases = IF gases = "none" THEN "all" ELSE gases,
             !.source = "unfccc_api", !.message = "No data found for this party"]
    ELSE LET data_df == IF Truthy(limit) /\ Len(result.rows) > limit.v
                        THEN PandasHead(result.rows, limit.v)
                        ELSE result.rows
             records == ToRecords(data_df)
         IN  [NoResponse EXCEPT !.kind = "data", !.party_code = party_code,
                 !.gases = IF gases = "none" THEN "all" ELSE gases,
                 !.data = records,
                 !.source = "unfccc_api",
                 !.limit_applied = IF Truthy(limit) /\ Len(data_df) > limit.v
                                   THEN limit ELSE NoLimit,
                 !.total_records = Len(records),
                 !.total_available = IF Truthy(limit) THEN Len(data_df)
                                      ELSE Len(records),
                 !.years = SortedUnique({data_df[i].year : i \in DOMAIN data_df}),
                 !.categories =
                     LET cs == {data_df[i].category_name : i \in DOMAIN data_df}
                     IN  SelectSeq(<<"energy", "waste">>, LAMBDA c : c \in cs)]

\* ------------------------------------------------------------------ state
VARIABLES
    script,     \* which script runs: "arima" or "forecast"
    payload,    \* what stdin holds
    pc,         \* position in main
    series,     \* main's series
    synthetic,  \* whether series is the generated sample data
    horizon,    \* main's horizon
    attempts,   \* the models tried so far, in order
    df,         \* forecastService: the cleaned, sorted, deduplicated frame
    data,       \* arimaService: the cleaned values
    fitted,     \* the observations handed to the model that was fitted
    fcst,       \* the estimator's forecast rows
    clamped,    \* forecastService: the row objects the constraint loop wrote to
    out,        \* the result object built
    stdout,     \* the JSON objects printed, in order
    exitCode,   \* -1 while running, then the process exit code
    clock,      \* the calendar day datetime.now() reads
    service,    \* the UNFCCCService object
    call,       \* the latest get_emissions_data call: arguments, query result
    response    \* what that call returned

vars == <<script, payload, pc, series, synthetic, horizon, attempts, df, data,
          fitted, fcst, clamped, out, stdout, exitCode, clock, service, call,
          response>>

Init ==
    /\ script \in {"arima", "forecast"}
    /\ \/ payload \in Requests(script, LongSeries(script))
       \/ payload \in Requests(script, ShortSeries(script))
       \/ payload \in NonRequests
    /\ pc = "start"
    /\ series = <<>>
    /\ synthetic = FALSE
    /\ horizon = 0
    /\ attempts = <<>>
    /\ df = <<>>
    /\ data = <<>>
    /\ fitted = <<>>
    /\ fcst = <<>>
    /\ clamped = <<>>
    /\ out = NoOut
    /\ stdout = <<>>
    /\ exitCode = -1
    /\ clock = 0
    /\ service = NoService /\ call = NoCall /\ response = NoResponse

\* the 100-point sample series: 100 + i + noise for i = 0..99, dated by day
NoiseShapes == {"flat", "alt"}

Noise(shape, i) == IF shape = "flat" THEN 0 ELSE IF i % 2 = 0 THEN 1 ELSE -1

SampleSeries(shape) ==
    [i \in 1..SynthLen |->
        Entry("dict", "date", i, "num", SynthBase + (i - 1) + Noise(shape, i))]

\* ------------------------------------------------- forecastService: fail
\* fail as it would be if the exit were caught by main's outer handler,
\* which calls fail again
failTwice(message) ==
    /\ stdout' = Append(Append(stdout, ErrorResult(message, "prophet")),
                        ErrorResult("Prophet forecasting failed", "prophet"))
    /\ exitCode' = 1
    /\ pc' = "exited"

\* print the error object, flush, sys.exit(1).  SystemExit is not an
\* Exception, so no handler of main or statistical_forecast catches it.
fail(message) ==
    /\ stdout' = Append(stdout, ErrorResult(message, "prophet"))
    /\ exitCode' = 1
    /\ pc' = "exited"

\* FsRead with a parser that swallows the JSONDecodeError and goes on with
\* an empty payload
FsReadLenient ==
    /\ script = "forecast" /\ pc = "start"
    /\ CASE payload.kind = "empty" ->
              fail("No input data provided") /\ UNCHANGED <<series, horizon>>
         [] payload.kind = "nonobject" \/ (payload.kind = "object" /\ payload.hK = "bad") ->
              fail("Prophet forecasting failed") /\ UNCHANGED <<series, horizon>>
         [] OTHER ->
              /\ series' = IF payload.kind = "malformed" THEN <<>> ELSE payload.series
              /\ horizon' = IF payload.kind = "malformed" \/ payload.hK = "omitted"
                            THEN DefaultHorizon ELSE payload.h
              /\ pc' = "synth"
              /\ UNCHANGED <<stdout, exitCode>>
    /\ UNCHANGED <<service, call, response, script, payload, synthetic, attempts, df, data, fitted, fcst,
                   clamped, out, clock>>

\* read stdin, parse it, extract series and horizonDays
FsRead ==
    /\ script = "forecast" /\ pc = "start"
    /\ CASE payload.kind = "empty" ->
              fail("No input data provided") /\ UNCHANGED <<series, horizon>>
         [] payload.kind = "malformed" ->
              fail("Invalid JSON input") /\ UNCHANGED <<series, horizon>>
         [] payload.kind = "nonobject" \/ payload.hK = "bad" ->
              \* payload.get or int() raises: the outer handler
              fail("Prophet forecasting failed") /\ UNCHANGED <<series, horizon>>
         [] OTHER ->
              /\ series' = payload.series
              /\ horizon' = IF payload.hK = "omitted" THEN DefaultHorizon ELSE payload.h
              /\ pc' = "synth"
              /\ UNCHANGED <<stdout, exitCode>>
    /\ UNCHANGED <<service, call, response, script, payload, synthetic, attempts, df, data, fitted, fcst,
                   clamped, out, clock>>

\* FsSynth deciding on the number of usable entries instead of the number
\* of raw entries
FsSynthByUsable ==
    /\ script = "forecast" /\ pc = "synth"
    /\ IF Cardinality({i \in DOMAIN series :
              series[i].shape = "dict" /\ series[i].yK = "num" /\ series[i].y > 0})
          < MinRowsProphet
       THEN \E shape \in NoiseShapes :
                series' = SampleSeries(shape) /\ synthetic' = TRUE
       ELSE UNCHANGED <<series, synthetic>>
    /\ pc' = "import"
    /\ UNCHANGED <<service, call, response, script, payload, horizon, attempts, df, data, fitted, fcst,
                   clamped, out, stdout, exitCode, clock>>

\* fewer raw entries than 5: replace the series by generated sample data
FsSynth ==
    /\ script = "forecast" /\ pc = "synth"
    /\ IF Len(series) < MinRowsProphet
       THEN \E shape \in NoiseShapes :
                series' = SampleSeries(shape) /\ synthetic' = TRUE
       ELSE UNCHANGED <<series, synthetic>>
    /\ pc' = "import"
    /\ UNCHANGED <<service, call, response, script, payload, horizon, attempts, df, data, fitted, fcst,
                   clamped, out, stdout, exitCode, clock>>

\* FsImport without the "except ImportError" clause: the ImportError
\* reaches main's outer handler
FsImportUncaught ==
    /\ script = "forecast" /\ pc = "import"
    /\ \E loaded \in BOOLEAN :
          IF loaded
          THEN /\ pc' = "clean" /\ attempts' = Append(attempts, "prophet")
               /\ UNCHANGED <<stdout, exitCode>>
          ELSE /\ attempts' = Append(attempts, "prophet_unavailable")
               /\ fail("Prophet forecasting failed")
    /\ UNCHANGED <<service, call, response, script, payload, series, synthetic, horizon, df, data, fitted,
                   fcst, clamped, out, clock>>

\* from prophet import Prophet: loads, or raises ImportError and main goes
\* to statistical_forecast
FsImport ==
    /\ script = "forecast" /\ pc = "import"
    /\ \E loaded \in BOOLEAN :
          IF loaded
          THEN pc' = "clean" /\ attempts' = Append(attempts, "prophet")
          ELSE pc' = "fallback" /\ attempts' = Append(attempts, "prophet_unavailable")
    /\ UNCHANGED <<service, call, response, script, payload, series, synthetic, horizon, df, data, fitted,
                   fcst, clamped, out, stdout, exitCode, clock>>

\* ------------------------------------- forecastService: the Prophet path
\* pd.to_datetime(None) is None, and None.date() raises AttributeError,
\* which the loop's handler (ValueError, TypeError, KeyError) does not catch
CleanRaises(ser) ==
    \E i \in DOMAIN ser :
        /\ ser[i].shape = "dict"
        /\ ser[i].dsK = "null"
        /\ ser[i].yK # "absent"

\* the entries the cleaning loop appends: a dict with a parseable ds and a
\* y that float() accepts, is > 0 and is not NaN
KeepProphet(e) ==
    /\ e.shape = "dict"
    /\ e.dsK = "date"
    /\ e.yK = "num"
    /\ e.y > 0

Row(ds, y) == [ds |-> ds, y |-> y]

CleanProphet(ser) ==
    LET kept == SelectSeq(ser, KeepProphet)
    IN  [i \in DOMAIN kept |-> Row(kept[i].ds, kept[i].y)]

\* sort_values('ds') then drop_duplicates(subset=['ds']): one row per date,
\* ascending.  The sort is not stable, so the row kept for a date is any of
\* the rows of that date.
RECURSIVE FramesFrom(_, _, _)
FramesFrom(rows, d, last) ==
    IF d > last THEN {<<>>}
    ELSE IF d = last
    THEN LET ys == {rows[i].y : i \in {j \in DOMAIN rows : rows[j].ds = d}}
         IN  IF ys = {} THEN {<<>>} ELSE {<<Row(d, y)>> : y \in ys}
    ELSE LET mid == (d + last) \div 2
         IN  {a \o b : a \in FramesFrom(rows, d, mid), b \in FramesFrom(rows, mid + 1, last)}

Frames(rows) ==
    IF rows = <<>> THEN {<<>>}
    ELSE LET ds == {rows[i].ds : i \in DOMAIN rows}
             lo == CHOOSE d \in ds : \A e \in ds : d <= e
             hi == CHOOSE d \in ds : \A e \in ds : d >= e
         IN  FramesFrom(rows, lo, hi)

FsClean ==
    /\ script = "forecast" /\ pc = "clean"
    /\ IF CleanRaises(series)
       THEN fail("Prophet forecasting failed") /\ UNCHANGED df
       ELSE LET cleaned == CleanProphet(series)
            IN  IF Len(cleaned) < MinRowsProphet
                THEN fail("Insufficient data") /\ UNCHANGED df
                ELSE \E frame \in Frames(cleaned) :
                        /\ df' = frame
                        /\ IF Len(frame) < MinRowsProphet
                           THEN fail("After cleaning, insufficient data")
                           ELSE pc' = "fit" /\ UNCHANGED <<stdout, exitCode>>
    /\ UNCHANGED <<service, call, response, script, payload, series, synthetic, horizon, attempts, data,
                   fitted, fcst, clamped, out, clock>>

\* What Prophet returns is not in this repository.  m.predict(future) gives
\* one row per history date and one per future date; its point forecasts
\* are drawn from this family (row i: base + step * i, band of half-width
\* w around it), which includes negative values and values far from the
\* last observation.
ProphetFamily ==
    {[base |-> 0 - Scale, step |-> 0, w |-> 0],
     [base |-> 0 - Scale, step |-> Scale \div 2, w |-> Scale \div 4],
     [base |-> 2 * Scale, step |-> 0, w |-> 0],
     [base |-> 2 * Scale, step |-> 0 - (Scale \div 4), w |-> Scale \div 4],
     [base |-> 9 * Scale, step |-> Scale \div 2, w |-> Scale \div 4]}

\* make_future_dataframe(periods=horizon): the history dates, then the
\* days after the last one; periods <= 0 adds none
Predict(frame, h, raw) ==
    LET m == Len(frame)
    IN  [i \in 1..(m + Max(h, 0)) |->
            Point(IF i <= m THEN frame[i].ds ELSE frame[m].ds + (i - m), FALSE,
                  raw.base + raw.step * i,
                  raw.base + raw.step * i - raw.w,
                  raw.base + raw.step * i + raw.w)]

\* Prophet(...), m.fit(df), m.make_future_dataframe, m.predict: returns the
\* forecast frame, or raises, and then main's outer handler calls fail
FsFit ==
    /\ script = "forecast" /\ pc = "fit"
    /\ fitted' = [i \in DOMAIN df |-> Num(df[i].y)]
    /\ \/ fail("Prophet forecasting failed") /\ UNCHANGED fcst
       \/ \E raw \in ProphetFamily :
             /\ fcst' = Predict(df, horizon, raw)
             /\ pc' = "post"
             /\ UNCHANGED <<stdout, exitCode>>
    /\ UNCHANGED <<service, call, response, script, payload, series, synthetic, horizon, attempts, df, data,
                   clamped, out, clock>>

\* DataFrame.tail(n): the last n rows; none for n = 0; for n < 0 all rows
\* but the first -n
PandasTail(frame, n) ==
    LET len == Len(frame)
    IN  IF n = 0 THEN <<>>
        ELSE IF n > 0 THEN SubSeq(frame, Max(1, len - n + 1), len)
        ELSE SubSeq(frame, Min(len, 0 - n) + 1, len)

\* the body of the constraint loop, applied to one row object
ConstrainRow(row, lastPrice, hMean, hStd) ==
    LET y1 == IF row.yhat < 0 THEN (lastPrice * 95) \div 100 ELSE row.yhat
        maxReasonable == (lastPrice * 3) \div 2
        minReasonable == lastPrice \div 2
        y2 == IF y1 > maxReasonable THEN maxReasonable
              ELSE IF y1 < minReasonable THEN minReasonable ELSE y1
        volatility == Min((hStd * Scale) \div hMean, Scale \div 5)
    IN  Point(row.ds, FALSE, y2, (y2 * (Scale - volatility)) \div Scale,
              (y2 * (Scale + volatility)) \div Scale)

\* The frame after "for i, row in tail.iterrows(): row[...] = ...".
\* iterrows builds each row Series from the values of the frame, which
\* holds a date column beside float columns, so each row is a copy: the
\* assignments change the row objects and leave the frame as it was.
FrameAfterLoop(frame, rows) == frame

\* tail, last, the metrics, the constraint loop, and the out object
FsPost ==
    /\ script = "forecast" /\ pc = "post"
    /\ LET tail == PandasTail(fcst, horizon)
       IN  IF tail = <<>>
           THEN \* tail.iloc[-1] raises IndexError
                fail("Prophet forecasting failed") /\ UNCHANGED <<clamped, out>>
           ELSE LET last == tail[Len(tail)]
                    ys == [i \in DOMAIN df |-> df[i].y]
                    hMean == NpMean(ys)
                    hStd == PandasStd(ys)
                    lastPrice == df[Len(df)].y * Scale
                    rows == [i \in DOMAIN tail |->
                                ConstrainRow(tail[i], lastPrice, hMean, hStd)]
                    after == FrameAfterLoop(tail, rows)
                IN  /\ clamped' = rows
                    /\ out' = ForecastResult("prophet", horizon, Len(df), last, after,
                                  IF last.yhat > hMean THEN "increasing" ELSE "decreasing",
                                  Num(hMean), Num(hStd))
                    /\ pc' = "emit"
                    /\ UNCHANGED <<stdout, exitCode>>
    /\ UNCHANGED <<service, call, response, script, payload, series, synthetic, horizon, attempts, df, data,
                   fitted, fcst, clock>>

\* -------------------------------- forecastService: statistical_forecast
\* [float(item['y']) for item in data if 'y' in item] raises when an item
\* is not a container ('y' in 5) or its y is not a number (float("abc"),
\* float(None))
ValuesRaise(ser) ==
    \E i \in DOMAIN ser :
        \/ ser[i].shape = "number"
        \/ ser[i].yK \in {"text", "null"}

HasY(e) == e.shape = "dict" /\ e.yK # "absent"

\* the values list: every y present, as float() gives it; nothing is
\* filtered by sign or NaN
FallbackValues(ser) ==
    LET kept == SelectSeq(ser, HasY)
    IN  [i \in DOMAIN kept |-> IF kept[i].yK = "nan" THEN NaN ELSE Num(kept[i].y)]

\* np.std(values - (slope * x + intercept))
StdError(ys, fit) ==
    NpStdFp([i \in DOMAIN ys |-> ys[i] * Scale - (fit.slope * (i - 1) + fit.intercept)])

\* LinearForecast with future_x counted from the day of the run
LinearForecastByDay(fit, n, i) == fit.slope * (n + i + clock) + fit.intercept

\* slope * future_x + intercept at future_x = len(values) + i, i from 0
LinearForecast(fit, n, i) == fit.slope * (n + i) + fit.intercept

Band(stdError) == (196 * stdError) \div 100

\* one forecast point of statistical_forecast, dated by the clock reading
\* now; NaN in the values makes every number of the regression NaN
FallbackPoint(values, i, now, days) ==
    IF AnyNaN(values) THEN Point(now + days, TRUE, 0, 0, 0)
    ELSE LET ys == Vals(values)
             fit == PolyFit(ys)
             f == LinearForecast(fit, Len(ys), i)
             b == Band(StdError(ys, fit))
         IN  Point(now + days, FALSE, f, f - b, f + b)

\* FallbackTrend with "slope >= 0"
FallbackTrendNonNegative(values) ==
    IF AnyNaN(values) THEN "decreasing"
    ELSE IF PolyFit(Vals(values)).num >= 0 THEN "increasing" ELSE "decreasing"

\* "increasing" if slope > 0 else "decreasing"; NaN > 0 is False
FallbackTrend(values) ==
    IF AnyNaN(values) THEN "decreasing"
    ELSE IF PolyFit(Vals(values)).num > 0 THEN "increasing" ELSE "decreasing"

\* the day each datetime.now() call reads: the clock is read once for next
\* and once for each path element, and midnight may pass after the first
\* k of these reads
Reading(j, k) == clock + (IF j < k THEN 0 ELSE 1)

\* FallbackOut carrying the primary's model name
FallbackOutAsPrimary(values, h, k) ==
    ForecastResult("prophet", h, Len(values),
        FallbackPoint(values, h - 1, Reading(0, k), h),
        [i \in 1..h |-> FallbackPoint(values, i - 1, Reading(i, k), i)],
        FallbackTrend(values),
        IF AnyNaN(values) THEN NaN ELSE Num(NpMean(Vals(values))),
        IF AnyNaN(values) THEN NaN ELSE Num(NpStd(Vals(values))))

\* the out object of statistical_forecast(data, horizon), horizon >= 1
FallbackOut(values, h, k) ==
    ForecastResult("prophet_fallback", h, Len(values),
        FallbackPoint(values, h - 1, Reading(0, k), h),
        [i \in 1..h |-> FallbackPoint(values, i - 1, Reading(i, k), i)],
        FallbackTrend(values),
        IF AnyNaN(values) THEN NaN ELSE Num(NpMean(Vals(values))),
        IF AnyNaN(values) THEN NaN ELSE Num(NpStd(Vals(values))))

\* except ImportError: out = statistical_forecast(series, horizon)
FsFallback ==
    /\ script = "forecast" /\ pc = "fallback"
    /\ attempts' = Append(attempts, "prophet_fallback")
    /\ IF ValuesRaise(series)
       THEN fail("Statistical forecasting failed") /\ UNCHANGED <<fitted, out, clock>>
       ELSE LET values == FallbackValues(series)
            IN  IF Len(values) < MinRowsFallback
                THEN fail("Insufficient data") /\ UNCHANGED <<fitted, out, clock>>
                ELSE /\ fitted' = values
                     /\ IF horizon < 1
                        THEN \* forecast is empty: forecast[-1] raises IndexError
                             fail("Statistical forecasting failed")
                                /\ UNCHANGED <<out, clock>>
                        ELSE \E k \in 1..(horizon + 1) :
                                /\ out' = FallbackOut(values, horizon, k)
                                /\ clock' = Reading(horizon, k)
                                /\ pc' = "emit"
                                /\ UNCHANGED <<stdout, exitCode>>
    /\ UNCHANGED <<service, call, response, script, payload, series, synthetic, horizon, df, data, fcst, clamped>>

\* print(json.dumps(out)), flush, and main returns: exit code 0
FsEmit ==
    /\ script = "forecast" /\ pc = "emit"
    /\ stdout' = Append(stdout, out)
    /\ exitCode' = 0
    /\ pc' = "exited"
    /\ UNCHANGED <<service, call, response, script, payload, series, synthetic, horizon, attempts, df, data,
                   fitted, fcst, clamped, out, clock>>

\* ----------------------------------------------------------- arimaService
\* print the error object with model "arima" and sys.exit(1); SystemExit
\* passes main's "except Exception"
ArimaFail(message) ==
    /\ stdout' = Append(stdout, ErrorResult(message, "arima"))
    /\ exitCode' = 1
    /\ pc' = "exited"

ArRead ==
    /\ script = "arima" /\ pc = "start"
    /\ CASE payload.kind = "empty" ->
              ArimaFail("No input data provided") /\ UNCHANGED <<series, horizon>>
         [] payload.kind = "malformed" ->
              ArimaFail("Invalid JSON input") /\ UNCHANGED <<series, horizon>>
         [] payload.kind = "nonobject" \/ payload.hK = "bad" ->
              ArimaFail("ARIMA forecasting failed") /\ UNCHANGED <<series, horizon>>
         [] OTHER ->
              /\ series' = payload.series
              /\ horizon' = IF payload.hK = "omitted" THEN DefaultHorizon ELSE payload.h
              /\ pc' = "synth"
              /\ UNCHANGED <<stdout, exitCode>>
    /\ UNCHANGED <<service, call, response, script, payload, synthetic, attempts, df, data, fitted, fcst,
                   clamped, out, clock>>

ArSynth ==
    /\ script = "arima" /\ pc = "synth"
    /\ IF Len(series) < MinRowsArima
       THEN \E shape \in NoiseShapes :
                series' = SampleSeries(shape) /\ synthetic' = TRUE
       ELSE UNCHANGED <<series, synthetic>>
    /\ pc' = "clean"
    /\ UNCHANGED <<service, call, response, script, payload, horizon, attempts, df, data, fitted, fcst,
                   clamped, out, stdout, exitCode, clock>>

\* the entries the cleaning loop appends: a dict with a y that float()
\* accepts, is > 0 and is not NaN
KeepArima(e) ==
    /\ e.shape = "dict"
    /\ e.yK = "num"
    /\ e.y > 0

CleanArima(ser) ==
    LET kept == SelectSeq(ser, KeepArima)
    IN  [i \in DOMAIN kept |-> kept[i].y]

ArClean ==
    /\ script = "arima" /\ pc = "clean"
    /\ LET cleaned == CleanArima(series)
       IN  IF Len(cleaned) < MinRowsArima
           THEN ArimaFail("Insufficient data") /\ UNCHANGED data
           ELSE data' = cleaned /\ pc' = "fit" /\ UNCHANGED <<stdout, exitCode>>
    /\ UNCHANGED <<service, call, response, script, payload, series, synthetic, horizon, attempts, df,
                   fitted, fcst, clamped, out, clock>>

\* What statsmodels returns is not in this repository.  forecast(steps)
\* gives steps point forecasts, drawn from this family (step i: base +
\* step * i), and raises for steps < 1 (the prediction would end before it
\* starts).
ArimaFamily ==
    {[base |-> 0 - Scale, step |-> 0],
     [base |-> 2 * Scale, step |-> Scale \div 2],
     [base |-> 2 * Scale, step |-> 0 - Scale]}

ArimaForecast(steps, raw) == [i \in 1..steps |-> raw.base + raw.step * i]

\* ARIMA(data, order=(1, 1, 1)).fit() and forecast(steps=horizon): returns
\* the forecast, or raises, and then main's handler prints the error
ArFit ==
    /\ script = "arima" /\ pc = "fit"
    /\ attempts' = Append(attempts, "arima")
    /\ fitted' = [i \in DOMAIN data |-> Num(data[i])]
    /\ \/ ArimaFail("ARIMA forecasting failed") /\ UNCHANGED fcst
       \/ /\ horizon >= 1
          /\ \E raw \in ArimaFamily :
                fcst' = [i \in 1..horizon |->
                            Point(0, FALSE, ArimaForecast(horizon, raw)[i], 0, 0)]
          /\ pc' = "build"
          /\ UNCHANGED <<stdout, exitCode>>
    /\ UNCHANGED <<service, call, response, script, payload, series, synthetic, horizon, df, data, clamped,
                   out, clock>>

\* forecast_std = np.std(data) * 0.1
ForecastStd(ys) == NpStd(ys) \div 10

\* ArimaPoint with the two bounds exchanged
ArimaPointSwapped(forecast, i, ds, ys) ==
    Point(ds, FALSE, forecast[i + 1].yhat,
          forecast[i + 1].yhat + Band(ForecastStd(ys)),
          forecast[i + 1].yhat - Band(ForecastStd(ys)))

\* element i (from 0) of forecast, with forecast_lower and forecast_upper
ArimaPoint(forecast, i, ds, ys) ==
    Point(ds, FALSE, forecast[i + 1].yhat,
          forecast[i + 1].yhat - Band(ForecastStd(ys)),
          forecast[i + 1].yhat + Band(ForecastStd(ys)))

\* the out object: next from forecast[-1], path from forecast[i] for i in
\* range(horizon)
ArBuild ==
    /\ script = "arima" /\ pc = "build"
    /\ LET n == Len(data)
           last == Len(fcst) - 1
       IN  out' = ForecastResult("arima", horizon, n,
                      ArimaPoint(fcst, last, n + horizon - 1, data),
                      [i \in 1..horizon |-> ArimaPoint(fcst, i - 1, n + i - 1, data)],
                      IF fcst[last + 1].yhat > NpMean(data)
                          THEN "increasing" ELSE "decreasing",
                      Num(NpMean(data)), Num(NpStd(data)))
    /\ pc' = "emit"
    /\ UNCHANGED <<service, call, response, script, payload, series, synthetic, horizon, attempts, df, data,
                   fitted, fcst, clamped, stdout, exitCode, clock>>

ArEmit ==
    /\ script = "arima" /\ pc = "emit"
    /\ stdout' = Append(stdout, out)
    /\ exitCode' = 0
    /\ pc' = "exited"
    /\ UNCHANGED <<service, call, response, script, payload, series, synthetic, horizon, attempts, df, data,
                   fitted, fcst, clamped, out, clock>>

\* ---------------------------------------------------------- specification
Next ==
    \/ FsRead \/ FsSynth \/ FsImport \/ FsClean \/ FsFit \/ FsPost
    \/ FsFallback \/ FsEmit
    \/ ArRead \/ ArSynth \/ ArClean \/ ArFit \/ ArBuild \/ ArEmit

Spec == Init /\ [][Next]_vars

\* ------------------------------------------------------------ properties
Exited == pc = "exited"

\* the invocation has written a ForecastResult
EmittedForecast == Exited /\ stdout # <<>> /\ stdout[1].kind = "forecast"

\* the invocation has written an ErrorResult
EmittedError == Exited /\ stdout # <<>> /\ stdout[1].kind = "error"

Points(o) == Range(o.path) \cup {o.next}

\* C1: every invocation of either script writes exactly one JSON object, a
\* ForecastResult or an ErrorResult, and exits 0 exactly with a
\* ForecastResult and 1 exactly with an ErrorResult; nothing is written
\* before the exit.
C1_OneObjectAndExitCode ==
    /\ Len(stdout) <= 1
    /\ ~Exited => stdout = <<>> /\ exitCode = -1
    /\ Exited =>
          /\ Len(stdout) = 1
          /\ stdout[1].kind \in {"forecast", "error"}
          /\ exitCode \in {0, 1}
          /\ exitCode = 0 <=> stdout[1].kind = "forecast"
          /\ exitCode = 1 <=> stdout[1].kind = "error"

\* a run of forecastService that ended in fail, called from
\* statistical_forecast after Prophet could not be loaded
C1_Witness ==
    /\ script = "forecast"
    /\ EmittedError
    /\ exitCode = 1
    /\ attempts = <<"prophet_unavailable", "prophet_fallback">>

\* C2: when Prophet raises while fitting or forecasting, the failure is
\* recovered: the step goes on to the result or to the fallback, and never
\* ends the invocation with the primary's error.
C2_PrimaryFailureRecovered ==
    [][(script = "forecast" /\ pc = "fit") => pc' \in {"post", "fallback"}]_vars

\* C3: when statistical_forecast fails, the ErrorResult carries the
\* fallback's message and the fallback's model name.
C3_FallbackErrorNamesFallback ==
    (script = "forecast" /\ EmittedError /\ Len(attempts) = 2
        /\ attempts[2] = "prophet_fallback")
    => /\ stdout[1].error \in {"Insufficient data", "Statistical forecasting failed"}
       /\ stdout[1].model = "prophet_fallback"

\* an entry that is a positive numeric observation
ValidEntry(e) == e.shape = "dict" /\ e.yK = "num" /\ e.y > 0

ValidCount(ser) == Cardinality({i \in DOMAIN ser : ValidEntry(ser[i])})

\* a request with a valid series of at least 5 positive observations and a
\* horizon of at least 1 (7 when omitted)
ValidRequest ==
    /\ payload.kind = "object"
    /\ Len(payload.series) >= MinRowsFallback
    /\ \A i \in DOMAIN payload.series : ValidEntry(payload.series[i])
    /\ payload.hK = "omitted" \/ (payload.hK = "int" /\ payload.h >= 1)

\* C4: Prophet cannot be loaded and the request is valid: the run goes
\* through statistical_forecast and ends with a ForecastResult of model
\* "prophet_fallback" and exit code 0, never with an ErrorResult.
C4_DegradesToFallback ==
    (script = "forecast" /\ ValidRequest /\ attempts # <<>>
        /\ attempts[1] = "prophet_unavailable")
    => /\ pc \in {"fallback", "emit", "exited"}
       /\ Exited => /\ EmittedForecast
                    /\ stdout[1].model = "prophet_fallback"
                    /\ stdout[1].horizonDays = horizon
                    /\ exitCode = 0

C4_Witness ==
    /\ script = "forecast" /\ ValidRequest
    /\ attempts = <<"prophet_unavailable", "prophet_fallback">>
    /\ EmittedForecast
    /\ stdout[1].model = "prophet_fallback"
    /\ exitCode = 0

\* C5: every point the Prophet path emits, in path and in next, has
\* yhat >= 0 and 0.5 * last <= yhat <= 1.5 * last, last being the last
\* observed value of the cleaned series.
C5_ClampedOutput ==
    (script = "forecast" /\ EmittedForecast /\ stdout[1].model = "prophet")
    => \A p \in Points(stdout[1]) :
          /\ p.yhat >= 0
          /\ 2 * p.yhat >= df[Len(df)].y * Scale
          /\ 2 * p.yhat <= 3 * df[Len(df)].y * Scale

\* the horizon the request asks for
RequestedHorizon == IF payload.hK = "omitted" THEN DefaultHorizon ELSE payload.h

\* C6: every ForecastResult has a path of exactly horizonDays elements,
\* and its horizonDays is the requested horizon (7 when omitted).
C6_PathLength ==
    EmittedForecast
    => /\ Len(stdout[1].path) = stdout[1].horizonDays
       /\ stdout[1].horizonDays = RequestedHorizon

\* every observation handed to the fitted model is a number > 0
CleanFitted == \A i \in DOMAIN fitted : ~fitted[i].nan /\ fitted[i].v > 0

C8_NextIsLastOfPath ==
    EmittedForecast
    => /\ stdout[1].path # <<>>
       /\ stdout[1].next = stdout[1].path[Len(stdout[1].path)]

\* C9: a request without horizonDays whose series has fewer than 5 valid
\* observations (empty and short series included) ends with exit code 1 and
\* an error "Insufficient data" tagged with the script's model family, and
\* never with a ForecastResult.
C9_InsufficientDataRejected ==
    (Exited /\ payload.kind = "object" /\ payload.hK = "omitted"
        /\ ValidCount(payload.series) < MinRowsProphet)
    => /\ EmittedError
       /\ exitCode = 1
       /\ stdout[1].error = "Insufficient data"
       /\ stdout[1].model \in
             (IF script = "arima" THEN {"arima"} ELSE {"prophet", "prophet_fallback"})

\* C10: every observation handed to model fitting is a number that is not
\* NaN and is > 0, and dataPoints counts no discarded entry.
C10_OnlyPositiveFitted ==
    /\ CleanFitted
    /\ EmittedForecast => stdout[1].dataPoints <= ValidCount(series)

\* a request whose series has at least the script's minimum of entries, each
\* a dict with a positive numeric y and no ds key, and a horizon of at
\* least 1 (7 when omitted)
YOnlyRequest ==
    /\ payload.kind = "object"
    /\ Len(payload.series) >= MinRows(script)
    /\ \A i \in DOMAIN payload.series :
          ValidEntry(payload.series[i]) /\ payload.series[i].dsK = "absent"
    /\ payload.hK = "omitted" \/ (payload.hK = "int" /\ payload.h >= 1)

\* the estimator itself raised on the observations it was handed
EstimatorRaised == EmittedError /\ fitted # <<>>

\* C11: a request whose entries all have a positive numeric y and no ds
\* loses no entry for lacking a timestamp: unless the estimator itself
\* raises, the run ends with a ForecastResult whose dataPoints is the number
\* of entries and whose path has horizonDays elements.
C11_UntimedSeriesForecast ==
    (Exited /\ YOnlyRequest /\ ~EstimatorRaised)
    => /\ EmittedForecast
       /\ stdout[1].dataPoints = Len(payload.series)
       /\ Len(stdout[1].path) = RequestedHorizon

\* the summary label the rule gives: "increasing" when the last path
\* element lies above the historical mean (a comparison with NaN is false)
LabelOf(o) ==
    LET last == o.path[Len(o.path)]
    IN  IF ~last.nan /\ ~o.mean.nan /\ last.yhat > o.mean.v
        THEN "increasing" ELSE "decreasing"

\* slope * future_x + intercept > mean(values) at the last future_x,
\* len(values) + h - 1, without rounding: the difference is
\* slope * (future_x - mean(x)), positive when num and
\* n * future_x - sum(x) have the same sign
LastAboveMean(values, h) ==
    IF AnyNaN(values) THEN FALSE
    ELSE LET ys == Vals(values)
             n == Len(ys)
             sx == (n * (n - 1)) \div 2
             num == PolyFit(ys).num
             dx == n * (n + h - 1) - sx
         IN  (num > 0 /\ dx > 0) \/ (num < 0 /\ dx < 0)

C13_NonPositiveHorizonRejected ==
    (Exited /\ payload.kind = "object" /\ payload.hK = "int" /\ payload.h <= 0)
    => EmittedError /\ exitCode = 1

\* C14: unparseable JSON and empty input are terminal: the run ends with one
\* ErrorResult that names a model (and "Invalid JSON input" for unparseable
\* text) and exit code 1, no sample series is generated and neither the
\* primary nor the fallback model is attempted.
C14_BadInputIsTerminal ==
    payload.kind \in {"empty", "malformed"}
    => /\ pc \in {"start", "exited"}
       /\ ~synthetic /\ series = <<>> /\ attempts = <<>> /\ fitted = <<>>
       /\ out = NoOut
       /\ Exited => /\ EmittedError
                    /\ exitCode = 1
                    /\ stdout[1].model = (IF script = "arima" THEN "arima" ELSE "prophet")
                    /\ payload.kind = "malformed" => stdout[1].error = "Invalid JSON input"

C14_Witness ==
    /\ payload.kind = "malformed"
    /\ EmittedError
    /\ stdout[1].error = "Invalid JSON input"
    /\ exitCode = 1
    /\ attempts = <<>>

\* the run has extracted the series and is past the substitution step
PastSynth ==
    /\ payload.kind = "object" /\ payload.hK # "bad"
    /\ pc \notin {"start", "synth"}

\* the value an entry of the series contributes to a fit
ValueOf(e) == IF e.yK = "nan" THEN NaN ELSE Num(e.y)

\* C16: the series that is cleaned and fitted is the generated sample
\* series exactly when the raw series has fewer entries than the script's
\* minimum (10 for arimaService, 5 for forecastService); then no entry of
\* the caller is used, and with at least the minimum of raw entries no
\* generated point is used, however few entries cleaning leaves.
C16_SampleSeriesOnlyWhenShort ==
    PastSynth
    => /\ synthetic <=> Len(payload.series) < MinRows(script)
       /\ synthetic => \E shape \in NoiseShapes : series = SampleSeries(shape)
       /\ ~synthetic => series = payload.series
       /\ \A i \in DOMAIN fitted : \E j \in DOMAIN series :
             series[j].shape = "dict" /\ fitted[i] = ValueOf(series[j])

\* a forecast made from the sample series for a caller who sent one entry
\* too few, all of them usable
C16_Witness ==
    /\ synthetic
    /\ EmittedForecast
    /\ Len(payload.series) = MinRows(script) - 1
    /\ ValidCount(payload.series) = Len(payload.series)
    /\ stdout[1].dataPoints = SynthLen

\* C17: forecastService makes at most one primary attempt and at most one
\* fallback attempt, the fallback only after the primary ended (here: could
\* not be loaded), and an emitted ForecastResult is built from one model:
\* "prophet" only with every value from the primary's forecast frame,
\* "prophet_fallback" only with every value from statistical_forecast.
C17_OneModelPerResult ==
    script = "forecast"
    => /\ attempts \in {<<>>, <<"prophet">>, <<"prophet_unavailable">>,
                        <<"prophet_unavailable", "prophet_fallback">>}
       /\ EmittedForecast =>
             /\ stdout[1].model \in {"prophet", "prophet_fallback"}
             /\ stdout[1].model = "prophet" =>
                   /\ attempts = <<"prophet">>
                   /\ Points(stdout[1]) \subseteq Range(fcst)
             /\ stdout[1].model = "prophet_fallback" =>
                   /\ attempts = <<"prophet_unavailable", "prophet_fallback">>
                   /\ fcst = <<>>
                   /\ \A i \in DOMAIN stdout[1].path :
                         LET p == stdout[1].path[i]
                         IN  FallbackPoint(fitted, i - 1, p.ds, 0) = p
                   /\ FallbackPoint(fitted, horizon - 1, stdout[1].next.ds, 0)
                         = stdout[1].next

\* a result of the fallback, emitted after the primary could not be loaded
C17_Witness ==
    /\ script = "forecast"
    /\ EmittedForecast
    /\ stdout[1].model = "prophet_fallback"
    /\ attempts = <<"prophet_unavailable", "prophet_fallback">>
    /\ Len(stdout[1].path) >= 2

\* ------------------------------- two runs of statistical_forecast
\* The state in which main enters "except ImportError" with a series of at
\* least 5 raw entries and a horizon read from the request.
InitRerun ==
    /\ script = "forecast"
    /\ payload \in {r \in Requests("forecast", LongSeries("forecast")) : r.hK = "int"}
    /\ pc = "fallback"
    /\ series = payload.series
    /\ synthetic = FALSE
    /\ horizon = RequestedHorizon
    /\ attempts = <<"prophet_unavailable">>
    /\ df = <<>> /\ data = <<>> /\ fitted = <<>> /\ fcst = <<>> /\ clamped = <<>>
    /\ out = NoOut
    /\ stdout = <<>>
    /\ exitCode = -1
    /\ clock = 0
    /\ service = NoService /\ call = NoCall /\ response = NoResponse

\* the same request is run a second time, the same day or a later one:
\* the second process starts with the same series and horizon, and its
\* output is collected after the first one's
Rerun ==
    /\ script = "forecast" /\ pc = "exited"
    /\ Len(stdout) < 2
    /\ \E gap \in 0..MaxGap : clock' = clock + gap
    /\ pc' = "fallback"
    /\ attempts' = <<"prophet_unavailable">>
    /\ fitted' = <<>>
    /\ out' = NoOut
    /\ exitCode' = -1
    /\ UNCHANGED <<service, call, response, script, payload, series, synthetic, horizon, df, data, fcst,
                   clamped, stdout>>

NextRerun == FsFallback \/ FsEmit \/ Rerun

SpecRerun == InitRerun /\ [][NextRerun]_vars

Undated(o) ==
    [o EXCEPT !.next = [o.next EXCEPT !.ds = 0],
              !.path = [i \in DOMAIN o.path |-> [o.path[i] EXCEPT !.ds = 0]]]

InitUnfccc ==
    /\ service \in Services
    /\ call = NoCall
    /\ response = NoResponse
    /\ script = "unfccc"
    /\ payload = [kind |-> "empty", series |-> <<>>, hK |-> "omitted", h |-> 0]
    /\ pc = "start"
    /\ series = <<>> /\ synthetic = FALSE /\ horizon = 0 /\ attempts = <<>>
    /\ df = <<>> /\ data = <<>> /\ fitted = <<>> /\ fcst = <<>> /\ clamped = <<>>
    /\ out = NoOut /\ stdout = <<>> /\ exitCode = -1 /\ clock = 0

\* one call of get_emissions_data(party_code, gases, limit), the reader's
\* query returning result
GetEmissionsData ==
    /\ script = "unfccc"
    /\ \E party_code \in {"USA", "DEU"}, gases \in {"none", "CO2"},
          limit \in LimitInputs, result \in QueryResults :
          /\ call' = [party_code |-> party_code, gases |-> gases, limit |-> limit,
                      result |-> IF is_available(service) THEN result ELSE NoCall.result]
          /\ response' = GetEmissionsResult(service, party_code, gases, limit, result)
    /\ UNCHANGED <<service, script, payload, pc, series, synthetic, horizon, attempts,
                   df, data, fitted, fcst, clamped, out, stdout, exitCode, clock>>

NextUnfccc == GetEmissionsData

SpecUnfccc == InitUnfccc /\ [][NextUnfccc]_vars

\* C18: get_emissions_data on an available service with a positive limit
\* and a non-empty query result of n rows returns min(n, limit) records,
\* limit_applied equal to the limit exactly when n > limit (None
\* otherwise), and summary.total_available equal to n.
C18_LimitReported ==
    (is_available(service) /\ call.result.k = "frame" /\ call.result.rows # <<>>
        /\ call.limit.k = "int" /\ call.limit.v > 0)
    => LET n == Len(call.result.rows)
       IN  /\ response.kind = "data"
           /\ Len(response.data) = Min(n, call.limit.v)
           /\ response.limit_applied = (IF n > call.limit.v THEN call.limit ELSE NoLimit)
           /\ response.total_available = n

====
